---- MODULE Spec2Model ----
(***************************************************************************)
(* Walk-forward backtesting of an EWMA crossover rule:                     *)
(*   signals/ewma_signal.py            EWMASignal.get_forecast             *)
(*   position_sizing/vol_target_sizing.py  VolTargetSizing                 *)
(*   backtesting/rolling_window_backtest.py RollingWindowBacktest          *)
(*   portfolio_u/portfolio_optimizer.py    PortfolioOptimizer              *)
(*   test_rollingwindow.py                 RollingWindow                   *)
(*                                                                         *)
(* Timestamps are the 0-based positions of the price history, so a cursor  *)
(* of the model is the cursor i of the Python loop.  A pandas Series is a  *)
(* sequence of records [t |-> timestamp, v |-> value].                     *)
(*                                                                         *)
(* Floating-point values are modelled as exact real numbers: a rational    *)
(* <<n, d>> in lowest terms with d > 0, or a sum of square roots           *)
(*   <<n1, d1, r1, ..., nk, dk, rk>> = (n1/d1) sqrt(r1) + ... ,            *)
(* the r square-free and increasing (r = 1 is the rational part) and no    *)
(* coefficient zero, so that equal numbers are equal tuples; extended with *)
(* the IEEE specials NaN = <<0,0>>, +inf = <<1,0>>, -inf = <<-1,0>>.       *)
(* The square root of a rational is exact (see FSqrt); the square root of  *)
(* a sum of roots has no representation and stops the evaluation.          *)
(* Rounding error is modelled where it decides the outcome: in std() and   *)
(* mean() of equal returns (see StdIsZero, F64Std), whose metrics are the  *)
(* doubles float64 leaves (see Double).  The sign of a zero is not         *)
(* tracked: every zero is +0.                                              *)
(***************************************************************************)
EXTENDS Integers, Sequences, FiniteSets, TLC

(***************************************************************************)
(* Extended rational arithmetic (the float64 operations pandas applies).   *)
(***************************************************************************)
IAbs(n) == IF n < 0 THEN -n ELSE n

ISgn(n) == IF n > 0 THEN 1 ELSE IF n < 0 THEN -1 ELSE 0

RECURSIVE GCD(_, _)
GCD(a, b) == IF b = 0 THEN a ELSE GCD(b, a % b)

\* the value n/d: lowest terms, or the special a zero denominator names
Num(n, d) ==
    IF d = 0 THEN <<ISgn(n), 0>>
    ELSE LET g == GCD(IAbs(n), IAbs(d))
             s == ISgn(d)
         IN  <<(s * n) \div g, (s * d) \div g>>

NaN == <<0, 0>>

PosInf == <<1, 0>>

NegInf == <<-1, 0>>

Int2F(n) == <<n, 1>>

IsNaN(x) == x = NaN

IsInf(x) == x = PosInf \/ x = NegInf

IsFinite(x) == ~IsNaN(x) /\ ~IsInf(x)

\* n1/d1 + n2/d2 of two rationals
RatAdd(a, b) ==
    LET g == GCD(a[2], b[2])
        l == (a[2] \div g) * b[2]
    IN  Num(a[1] * (l \div a[2]) + b[1] * (l \div b[2]), l)

\* (n1/d1) * (n2/d2) of two rationals
RatMul(a, b) ==
    LET g1 == GCD(IAbs(a[1]), b[2])
        g2 == GCD(IAbs(b[1]), a[2])
    IN  Num((a[1] \div g1) * (b[1] \div g2), (a[2] \div g2) * (b[2] \div g1))

\* the terms <<n, d, r>> = (n/d) * sqrt(r) of a finite value, by increasing r
Terms(x) ==
    LET RECURSIVE Chunks(_)
        Chunks(y) ==
            IF y = << >> THEN << >>
            ELSE <<SubSeq(y, 1, 3)>> \o Chunks(SubSeq(y, 4, Len(y)))
    IN  IF Len(x) # 2 THEN Chunks(x)
        ELSE IF x[1] = 0 THEN << >>
        ELSE <<<<x[1], x[2], 1>>>>

\* the value of a list of terms with increasing r and no zero coefficient:
\* a rational <<n, d>>, or the terms one after the other
Surd(ts) ==
    LET RECURSIVE Flatten(_)
        Flatten(us) == IF us = << >> THEN << >> ELSE us[1] \o Flatten(Tail(us))
    IN  IF ts = << >> THEN <<0, 1>>
        ELSE IF Len(ts) = 1 /\ ts[1][3] = 1 THEN <<ts[1][1], ts[1][2]>>
        ELSE Flatten(ts)

\* the sum of two lists of terms: coefficients of the same root add up
RECURSIVE MergeTerms(_, _)
MergeTerms(a, b) ==
    IF a = << >> THEN b
    ELSE IF b = << >> THEN a
    ELSE IF a[1][3] < b[1][3] THEN <<a[1]>> \o MergeTerms(Tail(a), b)
    ELSE IF b[1][3] < a[1][3] THEN <<b[1]>> \o MergeTerms(a, Tail(b))
    ELSE LET c == RatAdd(<<a[1][1], a[1][2]>>, <<b[1][1], b[1][2]>>)
         IN  IF c[1] = 0 THEN MergeTerms(Tail(a), Tail(b))
             ELSE <<<<c[1], c[2], a[1][3]>>>> \o MergeTerms(Tail(a), Tail(b))

\* sqrt(r) * sqrt(s) = g * sqrt((r/g) * (s/g)) with g = gcd(r, s)
TermMul(s, t) ==
    LET g == GCD(s[3], t[3])
        c == RatMul(RatMul(<<s[1], s[2]>>, <<t[1], t[2]>>), <<g, 1>>)
    IN  <<c[1], c[2], (s[3] \div g) * (t[3] \div g)>>

\* the sum of the first k pairwise products of two lists of terms
RECURSIVE MulTerms(_, _, _)
MulTerms(a, b, k) ==
    IF k = 0 THEN << >>
    ELSE MergeTerms(MulTerms(a, b, k - 1),
                    <<TermMul(a[((k - 1) \div Len(b)) + 1], b[((k - 1) % Len(b)) + 1])>>)

NegTerms(ts) == [k \in 1..Len(ts) |-> <<-ts[k][1], ts[k][2], ts[k][3]>>] \o << >>

\* greatest k in lo..hi with k * k <= n, by bisection (lo * lo <= n)
RECURSIVE ISqrtIn(_, _, _)
ISqrtIn(n, lo, hi) ==
    IF lo >= hi THEN lo
    ELSE LET mid == (lo + hi + 1) \div 2
         IN  IF mid * mid <= n THEN ISqrtIn(n, mid, hi) ELSE ISqrtIn(n, lo, mid - 1)

\* floor(sqrt(n)) of a 32-bit n >= 0
ISqrt(n) == ISqrtIn(n, 0, 46340)

\* a value the representation cannot hold: evaluation stops
Unrepresentable(x) == CHOOSE v \in {} : v = x

\* sign of a sum of terms from bounds k <= K * sqrt(r) <= k + 1 on its roots
BoundedSign(ts) ==
    LET K  == ISqrt(2147483647 \div ts[Len(ts)][3])
        lo(t) == ISqrt(t[3] * K * K)
        hi(t) == IF t[3] = 1 THEN K ELSE lo(t) + 1
        RECURSIVE Low(_)
        Low(k) == IF k = 0 THEN <<0, 1>>
                  ELSE RatAdd(Low(k - 1),
                              Num(ts[k][1] * (IF ts[k][1] > 0 THEN lo(ts[k]) ELSE hi(ts[k])),
                                  ts[k][2]))
        RECURSIVE High(_)
        High(k) == IF k = 0 THEN <<0, 1>>
                   ELSE RatAdd(High(k - 1),
                               Num(ts[k][1] * (IF ts[k][1] > 0 THEN hi(ts[k]) ELSE lo(ts[k])),
                                   ts[k][2]))
    IN  IF Low(Len(ts))[1] > 0 THEN 1
        ELSE IF High(Len(ts))[1] < 0 THEN -1
        ELSE Unrepresentable(ts)

\* sign of a sum of terms: roots of different square-free numbers never cancel
TermsSign(ts) ==
    IF ts = << >> THEN 0
    ELSE IF \A k \in 1..Len(ts) : ts[k][1] > 0 THEN 1
    ELSE IF \A k \in 1..Len(ts) : ts[k][1] < 0 THEN -1
    ELSE IF Len(ts) = 2
    THEN LET c == RatMul(<<IAbs(ts[1][1]), ts[1][2]>>, <<ts[2][2], IAbs(ts[2][1])>>)
         IN  IF c[1] * c[1] * ts[1][3] > c[2] * c[2] * ts[2][3]
             THEN ISgn(ts[1][1]) ELSE ISgn(ts[2][1])
    ELSE BoundedSign(ts)

FSgn(x) == IF Len(x) <= 3 THEN ISgn(x[1]) ELSE TermsSign(Terms(x))

FNeg(x) == IF Len(x) = 2 THEN <<-x[1], x[2]>> ELSE Surd(NegTerms(Terms(x)))

FAbs(x) == IF FSgn(x) < 0 THEN FNeg(x) ELSE x

\* a + b; inf + inf = inf, inf + (-inf) = NaN
FAdd(a, b) ==
    IF IsNaN(a) \/ IsNaN(b) THEN NaN
    ELSE IF IsInf(a) /\ IsInf(b) THEN (IF a = b THEN a ELSE NaN)
    ELSE IF IsInf(a) THEN a
    ELSE IF IsInf(b) THEN b
    ELSE IF Len(a) = 2 /\ Len(b) = 2 THEN RatAdd(a, b)
    ELSE Surd(MergeTerms(Terms(a), Terms(b)))

FSub(a, b) == FAdd(a, FNeg(b))

\* a * b; 0 * inf = NaN
FMul(a, b) ==
    IF IsNaN(a) \/ IsNaN(b) THEN NaN
    ELSE IF a[2] = 0 \/ b[2] = 0 THEN <<FSgn(a) * FSgn(b), 0>>
    ELSE IF Len(a) = 2 /\ Len(b) = 2 THEN RatMul(a, b)
    ELSE Surd(MulTerms(Terms(a), Terms(b), Len(Terms(a)) * Len(Terms(b))))

\* the terms with the sign changed where p divides r: for b = A + B sqrt(p),
\* A and B without roots of multiples of p, this is A - B sqrt(p)
Conjugate(ts, p) ==
    [k \in 1..Len(ts) |->
        <<IF ts[k][3] % p = 0 THEN -ts[k][1] ELSE ts[k][1], ts[k][2], ts[k][3]>>] \o << >>

\* 1 / b; 1 / 0 = +inf, 1 / inf = 0, 1 / NaN = NaN.  For a sum of roots
\* 1 / (A + B sqrt(p)) = (A - B sqrt(p)) / (A * A - p * B * B), p the least
\* prime in the greatest r: the denominator has no root of a multiple of p
RECURSIVE FInv(_)
FInv(b) ==
    IF IsNaN(b) THEN NaN
    ELSE IF IsInf(b) THEN <<0, 1>>
    ELSE IF b[1] = 0 THEN PosInf
    ELSE IF Len(b) = 2 THEN Num(b[2], b[1])
    ELSE IF Len(b) = 3
    THEN LET c == Num(b[2], b[1] * b[3]) IN <<c[1], c[2], b[3]>>
    ELSE LET Over(c) == FMul(c, FInv(FMul(b, c)))
         IN  Over(Surd(Conjugate(Terms(b),
                  CHOOSE p \in 2..b[Len(b)] :
                      /\ b[Len(b)] % p = 0
                      /\ \A q \in 2..(p - 1) : b[Len(b)] % q # 0)))

\* a / b; x / 0 = +-inf, 0 / 0 = NaN, inf / inf = NaN
FDiv(a, b) ==
    IF IsInf(a) /\ IsInf(b) THEN NaN ELSE FMul(a, FInv(b))

\* a < b, false when either is NaN
FLt(a, b) ==
    /\ ~IsNaN(a)
    /\ ~IsNaN(b)
    /\ a # b
    /\ IF IsInf(a) THEN a = NegInf
       ELSE IF IsInf(b) THEN b = PosInf
       ELSE IF Len(a) = 2 /\ Len(b) = 2 THEN a[1] * b[2] < b[1] * a[2]
       ELSE FSgn(FAdd(b, FNeg(a))) > 0

FLe(a, b) == ~IsNaN(a) /\ ~IsNaN(b) /\ (a = b \/ FLt(a, b))

\* Series.clip(lo, hi): a NaN stays a NaN
FClip(x, lo, hi) ==
    IF IsNaN(x) THEN NaN
    ELSE IF FLt(x, lo) THEN lo
    ELSE IF FLt(hi, x) THEN hi
    ELSE x

\* greatest s >= 1 whose square divides n >= 1
SquarePart(n) ==
    LET squares == {s \in 1..ISqrt(n) : n % (s * s) = 0}
    IN  CHOOSE s \in squares : \A t \in squares : t <= s

\* sqrt(x): sqrt(n/d) = (s/(u * e)) * sqrt(r * e) with n = s * s * r and
\* d = u * u * e, r and e square-free; sqrt of a negative is NaN, sqrt(inf) = inf
FSqrt(x) ==
    IF IsNaN(x) \/ FSgn(x) < 0 THEN NaN
    ELSE IF IsInf(x) THEN PosInf
    ELSE IF Len(x) # 2 THEN Unrepresentable(x)
    ELSE IF x[1] = 0 THEN <<0, 1>>
    ELSE LET s == SquarePart(x[1])
             u == SquarePart(x[2])
             r == x[1] \div (s * s)
             e == x[2] \div (u * u)
             c == Num(s, u * e)
         IN  Surd(<<<<c[1], c[2], r * e>>>>)

(***************************************************************************)
(* Sequence helpers and Python slicing.                                    *)
(***************************************************************************)
IMin(a, b) == IF a < b THEN a ELSE b

IMax(a, b) == IF a > b THEN a ELSE b

\* a slice bound as Python normalises it for a sequence of length n
PyBound(k, n) == IF k < 0 THEN IMax(k + n, 0) ELSE IMin(k, n)

\* s.iloc[a:b] with 0-based positions a, b (negative ones count from the end)
PySlice(s, a, b) ==
    LET lo == PyBound(a, Len(s))
        hi == PyBound(b, Len(s))
    IN  IF hi <= lo THEN << >> ELSE SubSeq(s, lo + 1, hi)

\* a range that advances by one whatever the step
RECURSIVE PyRangeUnitStep(_, _, _)
PyRangeUnitStep(start, stop, step) ==
    IF start >= stop THEN << >> ELSE <<start>> \o PyRangeUnitStep(start + 1, stop, step)

\* list(range(start, stop, step)) for step # 0
RECURSIVE PyRange(_, _, _)
PyRange(start, stop, step) ==
    IF (step > 0 /\ start >= stop) \/ (step < 0 /\ start <= stop) THEN << >>
    ELSE <<start>> \o PyRange(start + step, stop, step)

\* the tuple of a function over 1..n, every element evaluated once
Tup(f) == f \o << >>

Vals(s) == Tup([k \in 1..Len(s) |-> s[k].v])

Index(s) == Tup([k \in 1..Len(s) |-> s[k].t])

\* pd.Series(values, index=index)
MakeSeries(values, index) == Tup([k \in 1..Len(index) |-> [t |-> index[k], v |-> values[k]]])

\* elementwise binary operation of two series over the same index
Zip(Op(_, _), a, b) == Tup([k \in 1..Len(a) |-> [t |-> a[k].t, v |-> Op(a[k].v, b[k].v)]])

\* elementwise operation with a scalar
MapS(Op(_, _), a, c) == Tup([k \in 1..Len(a) |-> [t |-> a[k].t, v |-> Op(a[k].v, c)]])

\* Series.shift(1)
Shift1(s) == Tup([k \in 1..Len(s) |-> [t |-> s[k].t, v |-> IF k = 1 THEN NaN ELSE s[k - 1].v]])

\* Series.diff()
Diff(s) == Zip(FSub, s, Shift1(s))

\* Series.abs()
AbsS(s) == Tup([k \in 1..Len(s) |-> [t |-> s[k].t, v |-> FAbs(s[k].v)]])

\* Series.pct_change(): NaN first, then x[k] / x[k-1] - 1
PctChange(s) == MapS(FSub, Zip(FDiv, s, Shift1(s)), Int2F(1))

RECURSIVE SumSkipNa(_, _)
SumSkipNa(vs, k) ==
    IF k = 0 THEN Int2F(0)
    ELSE IF IsNaN(vs[k]) THEN SumSkipNa(vs, k - 1)
    ELSE FAdd(SumSkipNa(vs, k - 1), vs[k])

CountNotNa(vs) == Cardinality({k \in 1..Len(vs) : ~IsNaN(vs[k])})

\* Series.sum(): NaN entries are skipped, the empty sum is 0
SumS(s) == SumSkipNa(Vals(s), Len(s))

\* Series.mean(): NaN entries are skipped, NaN when nothing is left
MeanS(s) ==
    IF CountNotNa(Vals(s)) = 0 THEN NaN
    ELSE FDiv(SumS(s), Int2F(CountNotNa(Vals(s))))

\* Series.dropna()
DropNa(s) == SelectSeq(s, LAMBDA e : ~IsNaN(e.v))

\* Series.loc[idx] for a list idx of timestamps of s
Loc(s, idx) == Tup([k \in 1..Len(idx) |-> CHOOSE e \in {s[j] : j \in 1..Len(s)} : e.t = idx[k]])

(***************************************************************************)
(* Exponentially weighted mean, ewm(span, adjust=False).mean(), of a       *)
(* series without missing values: y[0] = x[0],                             *)
(* y[k] = (1 - alpha) y[k-1] + alpha x[k] with alpha = 2 / (span + 1).     *)
(***************************************************************************)
Alpha(span) == Num(2, span + 1)

\* one more entry: (1 - alpha) * previous mean + alpha * x
EwmMeanAppend(prev, x, span) ==
    Append(prev, FAdd(FMul(FSub(Int2F(1), Alpha(span)), prev[Len(prev)]),
                      FMul(Alpha(span), x)))

RECURSIVE EwmMeanVals(_, _, _)
EwmMeanVals(vs, span, k) ==
    IF k = 1 THEN <<vs[1]>>
    ELSE EwmMeanAppend(EwmMeanVals(vs, span, k - 1), vs[k], span)

EwmMean(s, span) ==
    IF Len(s) = 0 THEN << >>
    ELSE MakeSeries(EwmMeanVals(Vals(s), span, Len(s)), Index(s))

(***************************************************************************)
(* Exponentially weighted variance, ewm(span, adjust=False).var() with     *)
(* bias=False, ignore_na=False and min_periods=0, as pandas computes it:   *)
(* a running weighted mean and covariance, debiased by                     *)
(* sum_wt^2 / (sum_wt^2 - sum_wt2).  The first observation has no variance.*)
(***************************************************************************)
EwmCovInit(x) ==
    [mean |-> x, cov |-> Int2F(0), sum_wt |-> Int2F(1), sum_wt2 |-> Int2F(1),
     old_wt |-> Int2F(1), nobs |-> IF IsNaN(x) THEN 0 ELSE 1]

\* the update for an observation cur, given the decayed weights sw, sw2, ow,
\* their total tot = ow + alpha and the new mean m
EwmCovObserve(st, cur, a, sw, sw2, ow, tot, m) ==
    [mean |-> m,
     cov |-> FDiv(FAdd(FMul(ow, FAdd(st.cov, FMul(FSub(st.mean, m), FSub(st.mean, m)))),
                       FMul(a, FMul(FSub(cur, m), FSub(cur, m)))), tot),
     sum_wt |-> FDiv(FAdd(sw, a), tot),
     sum_wt2 |-> FDiv(FAdd(sw2, FMul(a, a)), FMul(tot, tot)),
     old_wt |-> Int2F(1),
     nobs |-> st.nobs + 1]

\* the update once the weights are decayed by f = 1 - alpha
EwmCovDecayed(st, cur, a, sw, sw2, ow) ==
    IF ~IsNaN(cur)
    THEN EwmCovObserve(st, cur, a, sw, sw2, ow, FAdd(ow, a),
                       FDiv(FAdd(FMul(ow, st.mean), FMul(a, cur)), FAdd(ow, a)))
    ELSE [st EXCEPT !.sum_wt = sw, !.sum_wt2 = sw2, !.old_wt = ow]

EwmCovWith(st, cur, a, f) ==
    IF ~IsNaN(st.mean)
    THEN EwmCovDecayed(st, cur, a, FMul(st.sum_wt, f), FMul(st.sum_wt2, FMul(f, f)),
                       FMul(st.old_wt, f))
    ELSE IF ~IsNaN(cur) THEN [st EXCEPT !.mean = cur, !.nobs = st.nobs + 1]
    ELSE st

EwmCovStep(st, cur, span) == EwmCovWith(st, cur, Alpha(span), FSub(Int2F(1), Alpha(span)))

\* the debiased variance from numerator sum_wt^2 and denominator sum_wt^2 - sum_wt2
EwmCovDebias(st, num, den) ==
    IF st.nobs >= 1 /\ FLt(Int2F(0), den) THEN FMul(FDiv(num, den), st.cov) ELSE NaN

EwmCovOut(st) ==
    EwmCovDebias(st, FMul(st.sum_wt, st.sum_wt),
                 FSub(FMul(st.sum_wt, st.sum_wt), st.sum_wt2))

\* the running states after each of the first k entries
EwmCovAppend(prev, x, span) == Append(prev, EwmCovStep(prev[Len(prev)], x, span))

RECURSIVE EwmCovStates(_, _, _)
EwmCovStates(vs, span, k) ==
    IF k = 1 THEN <<EwmCovInit(vs[1])>>
    ELSE EwmCovAppend(EwmCovStates(vs, span, k - 1), vs[k], span)

\* the outputs of the running states; the first entry has no variance
EwmVarOf(sts, index) ==
    Tup([k \in 1..Len(index) |->
            [t |-> index[k], v |-> IF k = 1 THEN NaN ELSE EwmCovOut(sts[k])]])

EwmVar(s, span) ==
    IF Len(s) = 0 THEN << >>
    ELSE EwmVarOf(EwmCovStates(Vals(s), span, Len(s)), Index(s))

\* sqrt as ewm(...).std() takes it: 0 where the variance is negative
ZSqrt(x, c) == IF FLt(x, Int2F(0)) THEN Int2F(0) ELSE FSqrt(x)

\* ewm(...).std()
EwmStd(s, span) == MapS(ZSqrt, EwmVar(s, span), Int2F(0))

(***************************************************************************)
(* EWMASignal (signals/ewma_signal.py).                                    *)
(***************************************************************************)
\* the default train_prices=None: a sentinel no price series equals
None == <<[t |-> -1, v |-> NaN]>>

\* EWMASignal(fast, slow) of the model: spans 3 and 7, alpha 1/2 and 1/4
fast == 3

slow == 7

\* (fast_ewma - slow_ewma) / prices
RawSignal(prices) == Zip(FDiv, Zip(FSub, EwmMean(prices, fast), EwmMean(prices, slow)), prices)

\* 10 / scaling_raw.abs().mean(): +inf for a zero mean, NaN for an empty window
ScalingFactor(scaling_data) == FDiv(Int2F(10), MeanS(AbsS(RawSignal(scaling_data))))

\* no clip
ClipForecastNone(x) == x

\* .clip(-20, 20)
ClipForecast(x) == FClip(x, Int2F(-20), Int2F(20))

\* line 60: (raw_signal * scaling_factor).clip(-20, 20)
ScaledForecast(raw_signal, scaling_factor) ==
    Tup([k \in 1..Len(raw_signal) |->
            [t |-> raw_signal[k].t,
             v |-> ClipForecast(FMul(raw_signal[k].v, scaling_factor))]])

\* line 44: train_prices if train_prices is not None else prices
ScalingData(prices, train_prices) == IF train_prices # None THEN train_prices ELSE prices

get_forecast(prices, train_prices) ==
    ScaledForecast(RawSignal(prices), ScalingFactor(ScalingData(prices, train_prices)))

(***************************************************************************)
(* VolTargetSizing (position_sizing/vol_target_sizing.py).                 *)
(***************************************************************************)
\* VolTargetSizing(vol_target=0.25, lookback) of the model: span 3, alpha 1/2
vol_target == Num(1, 4)

lookback == 3

\* returns.ewm(span=lookback, adjust=False).std() * sqrt(256)
calculate_volatility(prices) == MapS(FMul, EwmStd(PctChange(prices), lookback), Int2F(16))

\* lines 66-69: (vol_target * capital) / instrument_currency_vol * (forecast / 10)
ScaledPositions(forecast, instrument_currency_vol, capital) ==
    Tup([k \in 1..Len(instrument_currency_vol) |->
            [t |-> instrument_currency_vol[k].t,
             v |-> FMul(FDiv(FMul(vol_target, capital), instrument_currency_vol[k].v),
                        FDiv(forecast[k].v, Int2F(10)))]])

get_position_size(forecast, prices, capital) ==
    ScaledPositions(forecast, Zip(FMul, calculate_volatility(prices), prices), capital)

(***************************************************************************)
(* RollingWindowBacktest (backtesting/rolling_window_backtest.py).         *)
(***************************************************************************)
VARIABLES
    prices,          \* the price history handed to run, timestamps 0..len-1
    train_window,    \* self.train_window
    test_window,     \* self.test_window
    signal,          \* self.signal: the parameter names of its get_forecast
    pc,              \* "constructed", "loop", "returned", "raised", "done"
    cursors,         \* the values of i the for loop has still to visit
    windows,         \* trace of the loop's iterations, not a field of the object:
                     \* the locals i, train_prices, test_prices, valid_idx of each
    all_forecasts, all_positions, all_returns, all_costs, timestamps,
    error,           \* the exception run raised, "" when none
    results,         \* the dict run returns, the argument of calculate_metrics
    metrics,         \* what calculate_metrics returns
    call,            \* a direct call of a method of the signal, sizing or optimizer
    ret,             \* what that call returned
    splitter         \* the locals of RollingWindow (test_rollingwindow.py)

vars == <<prices, train_window, test_window, signal, pc, cursors, windows,
          all_forecasts, all_positions, all_returns, all_costs, timestamps,
          error, results, metrics, call, ret, splitter>>

callVars == <<call, ret, splitter>>

\* run(prices, capital, transaction_cost) of the model
capital == Int2F(4)

transaction_cost == Num(1, 16)

\* def get_forecast(self, prices, train_prices=None) of EWMASignal
EWMASignal == <<"prices", "train_prices">>

\* Python's binding of a call with npos positional arguments and one keyword
CallBinds(params, npos, keyword) ==
    \E k \in (npos + 1)..Len(params) : params[k] = keyword

AsSeries(xs) == Tup([k \in 1..Len(xs) |-> [t |-> k - 1, v |-> Int2F(xs[k])]])

\* line 57: prices.iloc[i - self.train_window : i]
TrainSlice(i) == PySlice(prices, i - train_window, i)

\* line 58: prices.iloc[i : i + self.test_window]
TestSlice(i) == PySlice(prices, i, i + test_window)

\* lines 77-83: what the window stores
WindowStored(i, train_prices, test_prices, forecast, positions, costs, net_returns) ==
    [i |-> i, train |-> Index(train_prices), test |-> Index(test_prices),
     forecast |-> forecast, positions |-> positions, net_returns |-> net_returns,
     costs |-> costs, valid_idx |-> Index(DropNa(net_returns))]

\* line 75: net_returns = strategy_returns - costs
WindowNetted(i, train_prices, test_prices, forecast, positions, strategy_returns, costs) ==
    WindowStored(i, train_prices, test_prices, forecast, positions, costs,
                 Zip(FSub, strategy_returns, costs))

\* lines 67-72: test_returns, strategy_returns, position_changes, costs
WindowSized(i, train_prices, test_prices, forecast, positions) ==
    WindowNetted(i, train_prices, test_prices, forecast, positions,
                 Zip(FMul, Shift1(positions), PctChange(test_prices)),
                 MapS(FMul, AbsS(Diff(positions)), transaction_cost))

\* line 64: positions = self.sizing.get_position_size(forecast, test_prices, capital)
WindowForecast(i, train_prices, test_prices, forecast) ==
    WindowSized(i, train_prices, test_prices, forecast,
                get_position_size(forecast, test_prices, capital))

\* line 61: forecast = self.signal.get_forecast(test_prices, train_data=train_prices),
\* once the call is bound: the test slice is scaled by the training slice
WindowOf(i, train_prices, test_prices) ==
    WindowForecast(i, train_prices, test_prices, get_forecast(test_prices, train_prices))

\* the body of the for loop for cursor i, lines 57-83
Window(i) == WindowOf(i, TrainSlice(i), TestSlice(i))

NoResults ==
    [returns |-> << >>, forecasts |-> << >>, positions |-> << >>, costs |-> << >>,
     cumulative_returns |-> << >>]

NoMetrics == [is_none |-> TRUE, sharpe_ratio |-> NaN, std_dev |-> NaN, num_trades |-> 0]

\* Series.cumprod() of a series without missing values: the running product
CumProdAppend(prev, x) ==
    Append(prev, FMul(IF prev = << >> THEN Int2F(1) ELSE prev[Len(prev)], x))

RECURSIVE CumProdVals(_, _)
CumProdVals(vs, k) ==
    IF k = 0 THEN << >> ELSE CumProdAppend(CumProdVals(vs, k - 1), vs[k])

CumProd(s) == MakeSeries(CumProdVals(Vals(s), Len(s)), Index(s))

\* line 55: the for loop is entered, range(...) is evaluated once
RunBegin ==
    /\ pc = "constructed"
    /\ IF test_window = 0
       THEN /\ pc' = "raised"
            /\ error' = "ValueError"
            /\ UNCHANGED cursors
       ELSE /\ pc' = "loop"
            /\ cursors' = PyRange(train_window, Len(prices) - test_window, test_window)
            /\ UNCHANGED error
    /\ UNCHANGED <<prices, train_window, test_window, signal, windows, all_forecasts,
                   all_positions, all_returns, all_costs, timestamps, results, metrics, callVars>>

\* lines 57-83: one iteration; get_forecast(test_prices, train_data=train_prices).
\* The keyword train_data is not a parameter of EWMASignal.get_forecast, the
\* only signal of the repository, so the call raises TypeError and lines
\* 64-83 are not reached.  When the call raises, nothing is stored: the trace
\* keeps the slices the iteration had taken (lines 57-58) with ok = FALSE.
RunWindow ==
    /\ pc = "loop"
    /\ cursors # << >>
    /\ LET i == Head(cursors)
       IN  IF ~CallBinds(signal, 1, "train_data")
           THEN /\ pc' = "raised"
                /\ error' = "TypeError"
                /\ windows' = Append(windows, [i |-> i, ok |-> FALSE,
                                                train |-> Index(TrainSlice(i)),
                                                test |-> Index(TestSlice(i)),
                                                valid_idx |-> << >>])
                /\ UNCHANGED <<cursors, all_forecasts, all_positions, all_returns,
                               all_costs, timestamps>>
           ELSE \E w \in {Window(i)} :
                /\ all_forecasts' = all_forecasts \o Vals(Loc(w.forecast, w.valid_idx))
                /\ all_positions' = all_positions \o Vals(Loc(w.positions, w.valid_idx))
                /\ all_returns' = all_returns \o Vals(Loc(w.net_returns, w.valid_idx))
                /\ all_costs' = all_costs \o Vals(Loc(w.costs, w.valid_idx))
                /\ timestamps' = timestamps \o w.valid_idx
                /\ windows' = Append(windows, [i |-> i, ok |-> TRUE, train |-> w.train,
                                                test |-> w.test, valid_idx |-> w.valid_idx])
                /\ cursors' = Tail(cursors)
                /\ UNCHANGED <<pc, error>>
    /\ UNCHANGED <<prices, train_window, test_window, signal, results, metrics, callVars>>

\* lines 85-98: the result series are assembled and returned
RunReturn ==
    /\ pc = "loop"
    /\ cursors = << >>
    /\ pc' = "returned"
    /\ results' =
         [returns |-> MakeSeries(all_returns, timestamps),
          forecasts |-> MakeSeries(all_forecasts, timestamps),
          positions |-> MakeSeries(all_positions, timestamps),
          costs |-> MakeSeries(all_costs, timestamps),
          cumulative_returns |->
              CumProd(MapS(FAdd, MakeSeries(all_returns, timestamps), Int2F(1)))]
    /\ UNCHANGED <<prices, train_window, test_window, signal, cursors, windows,
                   all_forecasts, all_positions, all_returns, all_costs, timestamps,
                   error, metrics, callVars>>

RECURSIVE SumAll(_, _)
SumAll(vs, k) == IF k = 0 THEN Int2F(0) ELSE FAdd(SumAll(vs, k - 1), vs[k])

\* the squared deviations from the average
SqrDev(vs, avg) == Tup([k \in 1..Len(vs) |-> FMul(FSub(avg, vs[k]), FSub(avg, vs[k]))])

\* Series.std() (ddof=1) of a series without missing values: NaN for fewer than
\* two observations, NaN when an entry is infinite.  For two observations
\* a, b the variance is (a - b)^2 / 2 and its root |a - b| * sqrt(1/2), which
\* has a value for sums of roots as well
StdS(s) ==
    IF Len(s) <= 1 THEN NaN
    ELSE IF Len(s) = 2 /\ IsFinite(s[1].v) /\ IsFinite(s[2].v)
    THEN FMul(FAbs(FSub(s[1].v, s[2].v)), FSqrt(Num(1, 2)))
    ELSE FSqrt(FDiv(SumAll(SqrDev(Vals(s), FDiv(SumAll(Vals(s), Len(s)), Int2F(Len(s)))),
                           Len(s)),
                    Int2F(Len(s) - 1)))

(***************************************************************************)
(* returns.std() of equal returns as float64 computes it.  Series.std()    *)
(* takes avg = sum / count and then the squared deviations avg - x, so it  *)
(* is 0 exactly when every entry equals the rounded average, and a         *)
(* rounding residue otherwise.  A positive double is [m, q]: the bits m of *)
(* its significand, most significant first, as an integer times 2^q.       *)
(* Every operation rounds to nearest, ties to even.                        *)
(***************************************************************************)
Significand == 53

Zeros(n) == Tup([k \in 1..n |-> 0])

\* without the leading zeros
Strip(b) ==
    IF \A k \in 1..Len(b) : b[k] = 0 THEN << >>
    ELSE SubSeq(b, CHOOSE k \in 1..Len(b) : b[k] = 1 /\ \A i \in 1..(k - 1) : b[i] = 0, Len(b))

\* the bits of a natural number
RECURSIVE ToBits(_)
ToBits(n) == IF n = 0 THEN << >> ELSE Append(ToBits(n \div 2), n % 2)

\* the carry into position k of a + b: a later position generates one and
\* every position between propagates it
CarryInto(a, b, k) ==
    IF \E j \in (k + 1)..Len(a) :
          /\ a[j] + b[j] = 2
          /\ \A i \in (k + 1)..(j - 1) : a[i] + b[i] = 1
    THEN 1 ELSE 0

\* the bits of a + b for two strings of one length, led by the carry out
AddBits(a, b) ==
    <<CarryInto(a, b, 0)>> \o
    Tup([k \in 1..Len(a) |-> (a[k] + b[k] + CarryInto(a, b, k)) % 2])

PadTo(b, n) == Zeros(n - Len(b)) \o b

\* the bits after the significand are above half, or half with an odd significand
RoundsUp(bits, sticky) ==
    /\ bits[Significand + 1] = 1
    /\ \/ sticky
       \/ bits[Significand] = 1
       \/ \E k \in (Significand + 2)..Len(bits) : bits[k] = 1

\* the incremented significand; a carry out leaves 1 followed by zeros
Carried(inc, q) ==
    IF inc[1] = 1 THEN [m |-> SubSeq(inc, 1, Significand), q |-> q + 1]
    ELSE [m |-> Tail(inc), q |-> q]

\* the double nearest to bits * 2^q (bits lead with 1); sticky: a non-zero
\* remainder lies below the last bit
F64Round(bits, q, sticky) ==
    IF Len(bits) <= Significand
    THEN [m |-> bits \o Zeros(Significand - Len(bits)), q |-> q - (Significand - Len(bits))]
    ELSE IF RoundsUp(bits, sticky)
    THEN Carried(AddBits(SubSeq(bits, 1, Significand), Zeros(Significand - 1) \o <<1>>),
                 q + (Len(bits) - Significand))
    ELSE [m |-> SubSeq(bits, 1, Significand), q |-> q + (Len(bits) - Significand)]

\* a normal double has a significand of 53 bits; zero, the subnormal and the
\* infinite doubles are not represented
Normal(x) == Len(x.m) = Significand

F64AddAt(a, b, n, q) == F64Round(Strip(AddBits(PadTo(a, n), PadTo(b, n))), q, FALSE)

F64AddBits(a, b, q) == F64AddAt(a, b, IMax(Len(a), Len(b)), q)

\* x + y, the significands aligned at the smaller exponent
F64Add(x, y) ==
    IF x.q <= y.q THEN F64AddBits(x.m, y.m \o Zeros(y.q - x.q), x.q)
    ELSE F64AddBits(x.m \o Zeros(x.q - y.q), y.m, y.q)

\* the number of the eight bits that end at position k
Octet(bits, k) ==
    128 * bits[k - 7] + 64 * bits[k - 6] + 32 * bits[k - 5] + 16 * bits[k - 4]
      + 8 * bits[k - 3] + 4 * bits[k - 2] + 2 * bits[k - 1] + bits[k]

\* the remainder of the long division by n after the first k bits, eight
\* bits at a time where k allows
RECURSIVE RemAfter(_, _, _)
RemAfter(bits, n, k) ==
    IF k = 0 THEN 0
    ELSE IF k % 8 = 0 THEN (256 * RemAfter(bits, n, k - 8) + Octet(bits, k)) % n
    ELSE (2 * RemAfter(bits, n, k - 1) + bits[k]) % n

\* the long division by n: the quotient bits and the remainder
DivBits(bits, n, k) ==
    [qb |-> Tup([j \in 1..k |-> (2 * RemAfter(bits, n, j - 1) + bits[j]) \div n]),
     r |-> RemAfter(bits, n, k)]

F64DivRounded(res, q) == F64Round(Strip(res.qb), q, res.r # 0)

F64DivBits(bits, n, q) == F64DivRounded(DivBits(bits, n, Len(bits)), q)

\* x / n for a positive integer n, the quotient taken to two bits past the
\* significand
F64DivInt(x, n) ==
    IF ~Normal(x) THEN Unrepresentable(x)
    ELSE F64DivBits(x.m \o Zeros(Len(ToBits(n)) + 2), n, x.q - (Len(ToBits(n)) + 2))

\* the double of the magnitude of a finite non-zero number
F64(x) ==
    IF Len(x) # 2 THEN Unrepresentable(x)
    ELSE F64DivInt(F64Round(ToBits(IAbs(x[1])), 0, FALSE), x[2])

\* x * 2^k
F64Scale(x, k) == [m |-> x.m, q |-> x.q + k]

\* acc + x + ... + x, k terms x added from left to right
RECURSIVE F64AddCopies(_, _, _)
F64AddCopies(acc, x, k) ==
    IF ~Normal(acc) THEN Unrepresentable(acc)
    ELSE IF k = 0 THEN acc
    ELSE F64AddCopies(F64Add(acc, x), x, k - 1)

\* ndarray.sum() of n copies of x, in the order of numpy's pairwise sum: from
\* left to right below 8 entries; up to 128 entries eight interleaved partial
\* sums, each from left to right, added as ((r0+r1)+(r2+r3))+((r4+r5)+(r6+r7)),
\* which is 8 times one of them, and then the n % 8 last entries; above 128
\* the two halves, the first of (n/2) - (n/2) % 8 entries
RECURSIVE F64SumCopies(_, _)
F64SumCopies(x, n) ==
    IF n < 8 THEN F64AddCopies(x, x, n - 1)
    ELSE IF n <= 128
    THEN F64AddCopies(F64Scale(F64AddCopies(x, x, (n \div 8) - 1), 3), x, n % 8)
    ELSE F64Add(F64SumCopies(x, (n \div 2) - ((n \div 2) % 8)),
                F64SumCopies(x, n - ((n \div 2) - ((n \div 2) % 8))))

\* a <= b for two naturals in bits without leading zeros
LeBits(a, b) ==
    \/ Len(a) < Len(b)
    \/ /\ Len(a) = Len(b)
       /\ \/ a = b
          \/ \E k \in 1..Len(a) : a[k] < b[k] /\ \A i \in 1..(k - 1) : a[i] = b[i]

\* the borrow into position k of a - b: a later position takes one and every
\* position between hands it on
BorrowInto(a, b, k) ==
    IF \E j \in (k + 1)..Len(a) :
          /\ a[j] < b[j]
          /\ \A i \in (k + 1)..(j - 1) : a[i] = b[i]
    THEN 1 ELSE 0

\* the bits of a - b for two strings of one length, a >= b
SubBitsAt(a, b) ==
    Strip(Tup([k \in 1..Len(a) |-> (a[k] + 2 - b[k] - BorrowInto(a, b, k)) % 2]))

SubBits(a, b) == SubBitsAt(a, PadTo(b, Len(a)))

\* the bits of a + b
SumBits(a, b) ==
    Strip(AddBits(PadTo(a, IMax(Len(a), Len(b))), PadTo(b, IMax(Len(a), Len(b)))))

\* a times the number the bits lo..hi of b spell
RECURSIVE MulBits(_, _, _, _)
MulBits(a, b, lo, hi) ==
    IF lo = hi THEN (IF b[lo] = 1 THEN a ELSE << >>)
    ELSE SumBits(MulBits(a, b, lo, (lo + hi) \div 2) \o Zeros(hi - ((lo + hi) \div 2)),
                 MulBits(a, b, ((lo + hi) \div 2) + 1, hi))

\* x * y
F64Mul(x, y) ==
    IF ~(Normal(x) /\ Normal(y)) THEN Unrepresentable(<<x, y>>)
    ELSE F64Round(MulBits(x.m, y.m, 1, Len(y.m)), x.q + y.q, FALSE)

\* |a - b| of two naturals in bits
DistBits(a, b) == IF LeBits(b, a) THEN SubBits(a, b) ELSE SubBits(b, a)

\* |x - y| for x # y, the significands aligned at the smaller exponent
F64Dist(x, y) ==
    IF x.q <= y.q THEN F64Round(DistBits(x.m, y.m \o Zeros(y.q - x.q)), x.q, FALSE)
    ELSE F64Round(DistBits(x.m \o Zeros(x.q - y.q), y.m), y.q, FALSE)

\* the integer square root, bit by bit, continued from the root p.r of the
\* first Len(p.r) pairs of bits and its remainder p.rem up to the pair hi;
\* the next bit of the root is 1 when 4r + 1 fits in the remainder
RECURSIVE SqrtBits(_, _, _)
SqrtBits(p, bits, hi) ==
    LET Try(r, rem) ==
            IF LeBits(Strip(r \o <<0, 1>>), rem)
            THEN [r |-> Append(r, 1), rem |-> SubBits(rem, Strip(r \o <<0, 1>>))]
            ELSE [r |-> Append(r, 0), rem |-> rem]
    IN  IF Len(p.r) >= hi THEN p
        ELSE IF Len(p.r) + 1 = hi
        THEN Try(p.r, Strip(p.rem \o <<bits[2 * hi - 1], bits[2 * hi]>>))
        ELSE SqrtBits(SqrtBits(p, bits, (Len(p.r) + hi) \div 2), bits, hi)

\* np.sqrt(x): the root of the significand extended to 110 or 111 bits, so
\* that the exponent left is even, rounded
F64Sqrt(x) ==
    LET Rounded(p, q) == F64Round(Strip(p.r), q, p.rem # << >>)
        Root(bits, q) ==
            Rounded(SqrtBits([r |-> << >>, rem |-> << >>], bits, Len(bits) \div 2), q)
    IN  IF (x.q - 57) % 2 = 0
        THEN Root(x.m \o Zeros(57), (x.q - 57) \div 2)
        ELSE Root(<<0>> \o x.m \o Zeros(58), (x.q - 58) \div 2)

\* the long division by the bits d, continued from the quotient p.qb of
\* the first Len(p.qb) bits and its remainder p.rem up to the bit hi
RECURSIVE QuotBits(_, _, _, _)
QuotBits(p, bits, d, hi) ==
    LET Try(qb, rem) ==
            IF LeBits(d, rem) THEN [qb |-> Append(qb, 1), rem |-> SubBits(rem, d)]
            ELSE [qb |-> Append(qb, 0), rem |-> rem]
    IN  IF Len(p.qb) >= hi THEN p
        ELSE IF Len(p.qb) + 1 = hi THEN Try(p.qb, Strip(Append(p.rem, bits[hi])))
        ELSE QuotBits(QuotBits(p, bits, d, (Len(p.qb) + hi) \div 2), bits, d, hi)

\* x / y, the quotient taken to two bits past the significand: it has one
\* bit less when the significand of x is below that of y
F64Div(x, y) ==
    LET Rounded(p, q) == F64Round(Strip(p.qb), q, p.rem # << >>)
        Quot(bits, d, q) == Rounded(QuotBits([qb |-> << >>, rem |-> << >>], bits, d, Len(bits)), q)
    IN  IF LeBits(y.m, x.m)
        THEN Quot(x.m \o Zeros(Significand + 1), y.m, x.q - y.q - (Significand + 1))
        ELSE Quot(x.m \o Zeros(Significand + 2), y.m, x.q - y.q - (Significand + 2))

\* every entry is the same finite number
EqualReturns(s) ==
    Len(s) >= 2 /\ \A k \in 1..Len(s) : IsFinite(s[k].v) /\ s[k].v = s[1].v

\* the sum of n copies is n times the entry whatever the entry is: the
\* average is then the entry itself
SumIsExact(n) == n \in {2, 8, 16}

\* returns.mean() of n copies of x: sum / count
F64Mean(x, n) == F64DivInt(F64SumCopies(x, n), n)

\* returns.std() == 0.  Two or more returns that differ have a positive
\* std().  An entry that is a sum of roots is the double the run computed,
\* which the model does not have: the test has a value where the sum is exact
StdIsZero(s) ==
    /\ EqualReturns(s)
    /\ \/ s[1].v = Int2F(0)
       \/ SumIsExact(Len(s))
       \/ F64Mean(F64(s[1].v), Len(s)) = F64(s[1].v)

\* returns.std() of n copies of x whose average avg is not x:
\* sqrt(((avg - x) ** 2).sum() / (n - 1))
F64Std(x, avg, n) ==
    F64Sqrt(F64DivInt(F64SumCopies(F64Mul(F64Dist(avg, x), F64Dist(avg, x)), n), n - 1))

\* a double s * m * 2^q as the value of a metrics field: <<s, q>> and the
\* bits of m
Double(s, f) == <<s, f.q>> \o f.m

\* lines 117-154 for equal returns whose std() is not 0: mean() and std()
\* are the doubles float64 leaves, np.sqrt(256) = 16 adds 4 to the exponent
MetricsOfEqual(x, avg, std, n) ==
    [is_none |-> FALSE,
     sharpe_ratio |-> Double(FSgn(x), F64Scale(F64Div(avg, std), 4)),
     std_dev |-> Double(1, std),
     num_trades |-> n]

MetricsOfCopies(x, avg, n) == MetricsOfEqual(x, avg, F64Std(F64(x), avg, n), n)

\* lines 117-154, given returns.std()
MetricsOf(returns, std) ==
    [is_none |-> FALSE,
     sharpe_ratio |-> FMul(FDiv(MeanS(returns), std), Int2F(16)),
     std_dev |-> std,
     num_trades |-> Len(returns)]

\* lines 110-154
calculate_metrics(res) ==
    IF StdIsZero(res.returns) \/ Len(res.returns) = 0 THEN NoMetrics
    ELSE IF EqualReturns(res.returns)
    THEN MetricsOfCopies(res.returns[1].v,
                         F64Mean(F64(res.returns[1].v), Len(res.returns)),
                         Len(res.returns))
    ELSE MetricsOf(res.returns, StdS(res.returns))

CalculateMetrics ==
    /\ pc = "returned"
    /\ pc' = "done"
    /\ metrics' = calculate_metrics(results)
    /\ UNCHANGED <<prices, train_window, test_window, signal, cursors, windows,
                   all_forecasts, all_positions, all_returns, all_costs, timestamps,
                   error, results, callVars>>


(***************************************************************************)
(* PortfolioOptimizer.combine_forecasts (portfolio_u/portfolio_optimizer.py)*)
(* forecasts_dict is a sequence of columns [name, series]; the DataFrame   *)
(* built from it is indexed by the sorted union of the series' timestamps  *)
(* and holds NaN where a series has no entry.                              *)
(***************************************************************************)
RECURSIVE SortedSeq(_)
SortedSeq(S) ==
    IF S = {} THEN << >>
    ELSE LET m == CHOOSE x \in S : \A y \in S : x <= y
         IN  <<m>> \o SortedSeq(S \ {m})

Stamps(series) == {series[k].t : k \in 1..Len(series)}

\* the index of pd.DataFrame(forecasts_dict)
FrameIndex(forecasts_dict) ==
    SortedSeq(UNION {Stamps(forecasts_dict[c].series) : c \in 1..Len(forecasts_dict)})

\* the cell of a column at timestamp t
Cell(series, t) ==
    IF t \in Stamps(series)
    THEN (CHOOSE e \in {series[k] : k \in 1..Len(series)} : e.t = t).v
    ELSE NaN

\* correlation_weights=None
NoWeights == [is_none |-> TRUE, get |-> << >>]

\* correlation_weights.get(col, 1.0)
WeightOf(correlation_weights, col) ==
    IF col \in DOMAIN correlation_weights.get THEN correlation_weights.get[col] ELSE Int2F(1)

\* lines 81-95
\* the row of the DataFrame at timestamp t
Row(forecasts_dict, t) ==
    Tup([c \in 1..Len(forecasts_dict) |-> Cell(forecasts_dict[c].series, t)])

\* line 88: [correlation_weights.get(col, 1.0) for col in forecasts_df.columns]
RawWeights(forecasts_dict, correlation_weights) ==
    Tup([c \in 1..Len(forecasts_dict) |->
            WeightOf(correlation_weights, forecasts_dict[c].name)])

\* line 89: np.array(weights) / sum(weights)
Normalized(raw) == Tup([c \in 1..Len(raw) |-> FDiv(raw[c], SumAll(raw, Len(raw)))])

\* line 85: forecasts_df.mean(axis=1), missing cells skipped
RowMean(row) ==
    IF CountNotNa(row) = 0 THEN NaN
    ELSE FDiv(SumSkipNa(row, Len(row)), Int2F(CountNotNa(row)))

\* line 90: (forecasts_df * weights).sum(axis=1), missing cells skipped
RowWeightedSum(row, weights) ==
    SumSkipNa(Tup([c \in 1..Len(row) |-> FMul(row[c], weights[c])]), Len(row))

\* lines 83-93 over the index and the normalized weights
CombinedOver(forecasts_dict, correlation_weights, index, weights) ==
    Tup([k \in 1..Len(index) |->
            [t |-> index[k],
             v |-> ClipForecast(
                     IF correlation_weights.is_none
                     THEN RowMean(Row(forecasts_dict, index[k]))
                     ELSE RowWeightedSum(Row(forecasts_dict, index[k]), weights))]])

\* lines 81-95
combine_forecasts(forecasts_dict, correlation_weights) ==
    CombinedOver(forecasts_dict, correlation_weights, FrameIndex(forecasts_dict),
                 Normalized(RawWeights(forecasts_dict, correlation_weights)))

(***************************************************************************)
(* PortfolioOptimizer.calculate_fdm.  A correlation matrix is a sequence of *)
(* rows, each a sequence of values.                                        *)
(***************************************************************************)
\* lines 60-61: correlation_matrix.values[mask], the entries off the diagonal
\* in row-major order
OffDiagonal(correlation_matrix) ==
    Tup([k \in 1..(Len(correlation_matrix) * (Len(correlation_matrix) - 1)) |->
            correlation_matrix[((k - 1) \div (Len(correlation_matrix) - 1)) + 1]
                              [LET r == ((k - 1) \div (Len(correlation_matrix) - 1)) + 1
                                   c == ((k - 1) % (Len(correlation_matrix) - 1)) + 1
                               IN  IF c < r THEN c ELSE c + 1]])

\* line 61: ndarray.mean(), sum / count; NaN entries propagate and an empty
\* array gives 0.0 / 0 = NaN
ArrayMean(vs) == FDiv(SumAll(vs, Len(vs)), Int2F(Len(vs)))

\* Python's max(a, b) that keeps its first argument
PyMaxFirst(a, b) == a

\* Python's max(a, b): b when b > a, otherwise a (so a NaN first argument stays)
PyMax(a, b) == IF FLt(a, b) THEN b ELSE a

\* line 66
FdmOf(avg_correlation) ==
    IF FLt(avg_correlation, Int2F(1))
    THEN FDiv(Int2F(1), FSqrt(FSub(Int2F(1), avg_correlation)))
    ELSE Int2F(1)

\* lines 60-68
calculate_fdm(correlation_matrix) ==
    FdmOf(PyMax(ArrayMean(OffDiagonal(correlation_matrix)), Int2F(0)))

(***************************************************************************)
(* Direct calls of the public methods.                                     *)
(***************************************************************************)
NoCall == [fn |-> "none"]

CallForecast ==
    /\ pc = "call"
    /\ call.fn = "get_forecast"
    /\ pc' = "ret"
    /\ ret' = get_forecast(call.prices, call.train_prices)
    /\ UNCHANGED <<prices, train_window, test_window, signal, cursors, windows,
                   all_forecasts, all_positions, all_returns, all_costs, timestamps,
                   error, results, metrics, call, splitter>>

CallPositionSize ==
    /\ pc = "call"
    /\ call.fn = "get_position_size"
    /\ pc' = "ret"
    /\ ret' = get_position_size(call.forecast, call.prices, call.capital)
    /\ UNCHANGED <<prices, train_window, test_window, signal, cursors, windows,
                   all_forecasts, all_positions, all_returns, all_costs, timestamps,
                   error, results, metrics, call, splitter>>

CallCombine ==
    /\ pc = "call"
    /\ call.fn = "combine_forecasts"
    /\ pc' = "ret"
    /\ ret' = combine_forecasts(call.forecasts_dict, call.correlation_weights)
    /\ UNCHANGED <<prices, train_window, test_window, signal, cursors, windows,
                   all_forecasts, all_positions, all_returns, all_costs, timestamps,
                   error, results, metrics, call, splitter>>

CallFdm ==
    /\ pc = "call"
    /\ call.fn = "calculate_fdm"
    /\ pc' = "ret"
    /\ ret' = calculate_fdm(call.correlation_matrix)
    /\ UNCHANGED <<prices, train_window, test_window, signal, cursors, windows,
                   all_forecasts, all_positions, all_returns, all_costs, timestamps,
                   error, results, metrics, call, splitter>>

(***************************************************************************)
(* RollingWindow (test_rollingwindow.py): an expanding, then rolling,      *)
(* train/test splitter.  df is the sequence of its rows.                   *)
(***************************************************************************)
\* line 17
slices == 20

\* line 19
desired_window_size == 10

\* RollingWindow is not running
NoSplitter == [start |-> 0, curr |-> 0, end |-> 0, increment |-> 0,
               train_df |-> << >>, test_df |-> << >>]

\* lines 14-19; int(end / slices) truncates the quotient of a length
SplitterEnter ==
    /\ pc = "call"
    /\ call.fn = "RollingWindow"
    /\ pc' = "while"
    /\ splitter' = [start |-> 0, curr |-> 0, end |-> Len(call.df),
                    increment |-> Len(call.df) \div slices,
                    train_df |-> << >>, test_df |-> << >>]
    /\ UNCHANGED <<prices, train_window, test_window, signal, cursors, windows,
                   all_forecasts, all_positions, all_returns, all_costs, timestamps,
                   error, results, metrics, call, ret>>

\* line 21: while curr < (end - increment)
SplitterTest ==
    /\ pc = "while"
    /\ pc' = IF splitter.curr < splitter.end - splitter.increment THEN "body" ELSE "exit"
    /\ UNCHANGED <<prices, train_window, test_window, signal, cursors, windows,
                   all_forecasts, all_positions, all_returns, all_costs, timestamps,
                   error, results, metrics, callVars>>

\* lines 24-43 for train_idx_back = curr + increment
SplitterSlices(train_idx_back) ==
    [start |-> IF train_idx_back - splitter.start = desired_window_size
               THEN splitter.curr ELSE splitter.start,
     curr |-> splitter.curr + splitter.increment,
     end |-> splitter.end,
     increment |-> splitter.increment,
     train_df |-> PySlice(call.df, splitter.start, train_idx_back),
     test_df |-> PySlice(call.df, train_idx_back, train_idx_back + splitter.increment)]

\* lines 24-43: one pass of the loop body
SplitterBody ==
    /\ pc = "body"
    /\ pc' = "while"
    /\ splitter' = SplitterSlices(splitter.curr + splitter.increment)
    /\ UNCHANGED <<prices, train_window, test_window, signal, cursors, windows,
                   all_forecasts, all_positions, all_returns, all_costs, timestamps,
                   error, results, metrics, call, ret>>

(***************************************************************************)
(* Initial states: a constructed backtest about to run, a direct call      *)
(* about to be made, or a results dict about to be handed to               *)
(* calculate_metrics.                                                      *)
(***************************************************************************)
\* longest price history of a backtest over PriceSet
MaxLen == 6

\* longest price history of a run whose loop has several cursors
MaxWalk == 10

\* longest series handed to a direct call
MaxCallLen == 3

\* number of timestamps of the series handed to combine_forecasts
MaxStamps == 1

PriceSet == {1, 2, 4}

WalkPriceSet == {1, 2}

TrainWindows == {0, 1, 2}

TestWindows == {-1, 0, 2, 4}

WalkTrainWindows == {1, 3}

WalkTestWindows == {2, 4}

ForecastValues == {NaN, Int2F(-20), Int2F(0)}

CombineValues == {NaN, Int2F(-20), Int2F(10), Int2F(20)}

ReturnValues == {Num(-1, 2), Int2F(0), Num(1, 10), NegInf}

WeightSets ==
    {NoWeights,
     [is_none |-> FALSE, get |-> [c \in {"a", "b"} |-> Int2F(1)]],
     [is_none |-> FALSE, get |-> [c \in {"a", "b"} |-> Int2F(2)]],
     [is_none |-> FALSE, get |-> [c \in {"a"} |-> Int2F(1)]],
     [is_none |-> FALSE, get |-> [c \in {"a"} |-> Int2F(3)]]}

Histories(alphabet, n) == UNION {[1..m -> alphabet] : m \in 0..n}

\* the series with values vs at the timestamps of S, in order
SeriesOver(S, vs) == MakeSeries(vs, SortedSeq(S))

\* every series over a subset of the timestamps 0..n-1 with values in V
SeriesSet(n, V) ==
    UNION {{SeriesOver(S, vs) : vs \in [1..Cardinality(S) -> V]} : S \in SUBSET (0..(n - 1))}

Idle ==
    /\ cursors = << >>
    /\ windows = << >>
    /\ all_forecasts = << >>
    /\ all_positions = << >>
    /\ all_returns = << >>
    /\ all_costs = << >>
    /\ timestamps = << >>
    /\ error = ""
    /\ metrics = NoMetrics
    /\ ret = << >>
    /\ splitter = NoSplitter

BacktestInit(histories, trains, tests) ==
    /\ prices \in {AsSeries(h) : h \in histories}
    /\ train_window \in trains
    /\ test_window \in tests
    /\ signal = EWMASignal
    /\ pc = "constructed"
    /\ results = NoResults
    /\ call = NoCall
    /\ Idle

NoBacktest ==
    /\ prices = << >>
    /\ train_window = 252
    /\ test_window = 63
    /\ signal = EWMASignal

ForecastCalls ==
    {[fn |-> "get_forecast", prices |-> AsSeries(p), train_prices |-> t] :
        p \in Histories(PriceSet, MaxCallLen),
        t \in {AsSeries(h) : h \in Histories(PriceSet, MaxCallLen)} \cup {None}}

PositionSizeCalls ==
    UNION {{[fn |-> "get_position_size", forecast |-> MakeSeries(f, Index(AsSeries(p))),
             prices |-> AsSeries(p), capital |-> capital] :
               f \in [1..Len(p) -> ForecastValues]} : p \in Histories(PriceSet, MaxCallLen)}

CombineCalls ==
    {[fn |-> "combine_forecasts",
      forecasts_dict |-> <<[name |-> "a", series |-> a], [name |-> "b", series |-> b]>>,
      correlation_weights |-> w] :
        a \in SeriesSet(MaxStamps, CombineValues),
        b \in SeriesSet(MaxStamps, CombineValues),
        w \in WeightSets}

CallInit ==
    /\ call \in ForecastCalls \cup PositionSizeCalls \cup CombineCalls
    /\ pc = "call"
    /\ results = NoResults
    /\ NoBacktest
    /\ Idle

\* a results dict with the given returns
ResultsOf(returns) ==
    [returns |-> returns,
     forecasts |-> MapS(FMul, returns, Int2F(0)),
     positions |-> MapS(FMul, returns, Int2F(0)),
     costs |-> MapS(FMul, returns, Int2F(0)),
     cumulative_returns |-> CumProd(MapS(FAdd, returns, Int2F(1)))]

MetricsInit ==
    /\ results \in {ResultsOf(AsReturns) :
                      AsReturns \in {MakeSeries(r, Index(AsSeries(r))) :
                                       r \in Histories(ReturnValues, MaxCallLen)}}
    /\ pc = "returned"
    /\ call = [fn |-> "calculate_metrics"]
    /\ NoBacktest
    /\ Idle

Init ==
    \/ BacktestInit(Histories(PriceSet, MaxLen), TrainWindows, TestWindows)
    \/ CallInit
    \/ MetricsInit

Next ==
    \/ RunBegin
    \/ RunWindow
    \/ RunReturn
    \/ CalculateMetrics
    \/ CallForecast
    \/ CallPositionSize
    \/ CallCombine

Spec == Init /\ [][Next]_vars

\* run alone, over longer histories (several cursors), with valid window lengths
WalkInit == BacktestInit(Histories(WalkPriceSet, MaxWalk), WalkTrainWindows, WalkTestWindows)

WalkNext == RunBegin \/ RunWindow \/ RunReturn

WalkSpec == WalkInit /\ [][WalkNext]_vars

\* largest number of forecast series of a correlation matrix
MaxSeries == 3

\* correlations; NaN is the correlation with a constant series
CorrValues == {NaN, Int2F(-1), Int2F(0), Num(1, 2), Int2F(1)}

\* the unordered pairs of the first n series
Pairs(n) == {pr \in (1..n) \X (1..n) : pr[1] < pr[2]}

\* the symmetric n x n matrix with unit diagonal and the given correlations
MatrixOf(n, corr) ==
    Tup([r \in 1..n |->
            Tup([c \in 1..n |->
                    IF r = c THEN Int2F(1)
                    ELSE IF r < c THEN corr[<<r, c>>] ELSE corr[<<c, r>>]])])

\* the correlation matrices of up to most series
CorrelationMatrices(most) ==
    UNION {{MatrixOf(n, corr) : corr \in [Pairs(n) -> CorrValues]} : n \in 0..most}

\* calculate_fdm alone, over every correlation matrix of up to MaxSeries series
FdmInit ==
    /\ call \in {[fn |-> "calculate_fdm", correlation_matrix |-> m] :
                    m \in CorrelationMatrices(MaxSeries)}
    /\ pc = "call"
    /\ results = NoResults
    /\ NoBacktest
    /\ Idle

FdmNext == CallFdm

FdmSpec == FdmInit /\ [][FdmNext]_vars

\* history lengths around 400; the number of cursors changes at 379 and 442
ScenarioLens == 378..442

\* a constant history of n prices
Flat(n) == AsSeries([k \in 1..n |-> 1])

\* RollingWindowBacktest(EWMASignal(...), sizing) with the default windows,
\* train_window=252 and test_window=63, about to run
ScenarioInit ==
    /\ prices \in {Flat(n) : n \in ScenarioLens}
    /\ train_window = 252
    /\ test_window = 63
    /\ signal = EWMASignal
    /\ pc = "constructed"
    /\ results = NoResults
    /\ call = NoCall
    /\ Idle

ScenarioNext == RunBegin \/ RunWindow

ScenarioSpec == ScenarioInit /\ [][ScenarioNext]_vars

\* largest number of rows handed to RollingWindow
MaxFrame == 45

\* longest price history of a run checked for termination
MaxTermLen == 4

\* the data frame of n rows 0..n-1 (line 4-6)
Frame(n) == [k \in 1..n |-> k - 1]

SplitterInit ==
    /\ call \in {[fn |-> "RollingWindow", df |-> Frame(n)] : n \in 0..MaxFrame}
    /\ pc = "call"
    /\ results = NoResults
    /\ NoBacktest
    /\ Idle

\* run, and RollingWindow; every step is taken as soon as
\* it can be: a sequential program does not pause
TermInit ==
    \/ BacktestInit(Histories(WalkPriceSet, MaxTermLen), TrainWindows, TestWindows)
    \/ SplitterInit

TermNext ==
    \/ RunBegin
    \/ RunWindow
    \/ RunReturn
    \/ SplitterEnter
    \/ SplitterTest
    \/ SplitterBody

TermSpec == TermInit /\ [][TermNext]_vars /\ WF_vars(TermNext)

(***************************************************************************)
(* Properties.                                                             *)
(***************************************************************************)
\* a backtest (not a direct call) is what the state belongs to
Backtest == call.fn = "none"

Returned == Backtest /\ pc \in {"returned", "done"}

ExecutedCursors == {windows[k].i : k \in 1..Len(windows)}

SeqToSet(xs) == {xs[k] : k \in 1..Len(xs)}

\* C1: run executes one window for each cursor i = train_window + k * test_window
\* with i <= len(prices) - test_window and for no other cursor; zero windows
\* execute, and run returns, exactly when train_window + test_window > len(prices).
C1_WindowAtEveryCursorUpToLenMinusTest ==
    (Returned /\ train_window > 0 /\ test_window > 0) =>
        /\ ExecutedCursors =
              {i \in 0..Len(prices) :
                  /\ i <= Len(prices) - test_window
                  /\ \E k \in 0..Len(prices) : i = train_window + k * test_window}
        /\ (windows = << >>) <=> (train_window + test_window > Len(prices))

\* C2: in every window run executes with an EWMASignal the get_forecast call
\* succeeds, with the training slice bound to train_prices, so that the
\* forecast is scaled by the factor of the training slice alone.
C2_EwmaForecastCallSucceeds ==
    (Backtest /\ signal = EWMASignal /\ train_window > 0 /\ test_window > 0) =>
        /\ error # "TypeError"
        /\ \A k \in 1..Len(windows) :
              /\ windows[k].ok
              /\ windows[k].train = Index(TrainSlice(windows[k].i))

\* the stamps i, ..., i + n - 1
StampRange(i, n) == [j \in 1..n |-> i + j - 1]

StrictlyIncreasing(xs) == \A j \in 1..Len(xs) : \A k \in 1..Len(xs) : j < k => xs[j] < xs[k]

\* the run is over: it returned its result or an exception left it
RunOver == Backtest /\ pc \in {"returned", "raised"}

\* C3: for positive window lengths the test ranges [i, i + test_window) of the
\* windows run executes are pairwise disjoint, each follows its training range
\* [i - train_window, i) and lies inside the price history, when the run is
\* over they contain every index of [train_window, len(prices) - test_window),
\* and the timestamps of the result run returns are strictly increasing.  A
\* window whose iteration raised counts as executed.
C3_TestRangesDisjointCoveringOrdered ==
    (Backtest /\ train_window > 0 /\ test_window > 0) =>
        /\ \A k \in 1..Len(windows) :
              LET w == windows[k]
              IN  /\ w.test = StampRange(w.i, test_window)
                  /\ w.train = StampRange(w.i - train_window, train_window)
                  /\ 0 <= w.i - train_window
                  /\ w.i + test_window <= Len(prices)
        /\ \A j \in 1..Len(windows) : \A k \in 1..Len(windows) :
              j # k => SeqToSet(windows[j].test) \cap SeqToSet(windows[k].test) = {}
        /\ RunOver =>
              \A t \in train_window..(Len(prices) - test_window - 1) :
                  \E k \in 1..Len(windows) : t \in SeqToSet(windows[k].test)
        /\ pc = "returned" => StrictlyIncreasing(Index(results.returns))

Defined(x) == ~IsNaN(x)

MalformedWindows ==
    \/ train_window <= 0
    \/ test_window <= 0
    \/ train_window > Len(prices)
    \/ test_window > Len(prices)

\* C5: with a non-positive or oversized train_window or test_window, run fails
\* with InvalidWindowError before any window is evaluated.
C5_MalformedWindowsRaiseInvalidWindowError ==
    (Backtest /\ pc # "constructed" /\ MalformedWindows) =>
        /\ pc = "raised"
        /\ error = "InvalidWindowError"
        /\ windows = << >>

\* the reference magnitude of the scaling window is zero
ZeroReference(train_prices) == MeanS(AbsS(RawSignal(train_prices))) = Int2F(0)

AllMissing(s) == \A k \in 1..Len(s) : IsNaN(s[k].v)

\* C6: when the training slice has zero reference magnitude get_forecast
\* returns only missing forecasts, and a window of run with such a training
\* slice does not abort the run and contributes no timestamp to the result.
C6_ZeroReferenceWindowIsMissing ==
    /\ (/\ pc = "ret"
         /\ call.fn = "get_forecast"
         /\ call.train_prices # None
         /\ ZeroReference(call.train_prices)) => AllMissing(ret)
    /\ (Backtest /\ train_window > 0 /\ test_window > 0) =>
          \A k \in 1..Len(windows) :
              ZeroReference(TrainSlice(windows[k].i)) =>
                  /\ windows[k].ok
                  /\ error = ""
                  /\ windows[k].valid_idx = << >>

ZeroOrMissing(x) == IsNaN(x) \/ x = Int2F(0)

\* C7: for defined forecasts get_position_size returns a missing position at
\* exactly the timestamps where the volatility estimate is zero or missing,
\* and a window of run stores no such timestamp.
C7_ZeroVolatilityGivesMissingPosition ==
    /\ (pc = "ret" /\ call.fn = "get_position_size") =>
          \A k \in 1..Len(ret) :
              Defined(call.forecast[k].v) =>
                 (IsNaN(ret[k].v) <=> ZeroOrMissing(calculate_volatility(call.prices)[k].v))
    /\ (Backtest /\ train_window > 0 /\ test_window > 0) =>
          \A k \in 1..Len(windows) :
              windows[k].ok =>
                 \A j \in 1..test_window :
                     ZeroOrMissing(calculate_volatility(TestSlice(windows[k].i))[j].v) =>
                        windows[k].test[j] \notin SeqToSet(windows[k].valid_idx)

\* every column has the same positive weight
EqualPositiveWeights(forecasts_dict, correlation_weights) ==
    /\ ~correlation_weights.is_none
    /\ \A c \in 1..Len(forecasts_dict) :
          /\ WeightOf(correlation_weights, forecasts_dict[c].name)
                = WeightOf(correlation_weights, forecasts_dict[1].name)
          /\ FLt(Int2F(0), WeightOf(correlation_weights, forecasts_dict[c].name))

\* C9: with the same positive weight for every series, combine_forecasts
\* returns what it returns without weights, at every timestamp.
C9_EqualWeightsEqualNoWeights ==
    (/\ pc = "ret"
     /\ call.fn = "combine_forecasts"
     /\ EqualPositiveWeights(call.forecasts_dict, call.correlation_weights)) =>
        ret = combine_forecasts(call.forecasts_dict, NoWeights)

InClipRange(x) == FLe(Int2F(-20), x) /\ FLe(x, Int2F(20))

\* C10: every value (an entry that is not missing) of a series returned by
\* get_forecast or by combine_forecasts, and every entry of the forecasts
\* series of a run result, lies in [-20, 20].
C10_ForecastsWithinClipRange ==
    /\ (pc = "ret" /\ call.fn \in {"get_forecast", "combine_forecasts"}) =>
          \A k \in 1..Len(ret) : Defined(ret[k].v) => InClipRange(ret[k].v)
    /\ Returned =>
          \A k \in 1..Len(results.forecasts) : InClipRange(results.forecasts[k].v)

\* C10 witness: get_forecast returned 20 where the scaled raw signal is above 20
C10_Witness ==
    /\ pc = "ret"
    /\ call.fn = "get_forecast"
    /\ \E k \in 1..Len(ret) :
          /\ ret[k].v = Int2F(20)
          /\ FLt(Int2F(20),
                 FMul(RawSignal(call.prices)[k].v,
                      ScalingFactor(ScalingData(call.prices, call.train_prices))))

\* at least two returns, all the same finite number
ZeroVariance(s) ==
    /\ Len(s) >= 2
    /\ \A k \in 1..Len(s) : IsFinite(s[k].v) /\ s[k].v = s[1].v

\* C8: calculate_metrics returns None for every result whose return series
\* has zero length or zero variance.
C8_NoMetricsForZeroLengthOrZeroVariance ==
    (pc = "done" /\ (Len(results.returns) = 0 \/ ZeroVariance(results.returns))) =>
        metrics.is_none

\* the average off-diagonal correlation of the matrix handed to calculate_fdm
AvgCorrelation == ArrayMean(OffDiagonal(call.correlation_matrix))

FdmReturned == pc = "ret" /\ call.fn = "calculate_fdm"

\* C11: for every correlation matrix calculate_fdm returns a finite value
\* >= 1, and exactly 1 whenever the average off-diagonal correlation is <= 0
\* or >= 1.
C11_FdmAtLeastOneAndFinite ==
    FdmReturned =>
        /\ IsFinite(ret)
        /\ FLe(Int2F(1), ret)
        /\ (FLe(AvgCorrelation, Int2F(0)) \/ FLe(Int2F(1), AvgCorrelation)) =>
              ret = Int2F(1)

\* two series that are exact negatives: the correlation -1 is floored at 0
C11_Witness ==
    /\ FdmReturned
    /\ Len(call.correlation_matrix) = 2
    /\ AvgCorrelation = Int2F(-1)
    /\ ret = Int2F(1)

\* the cursors of the for loop of run: those of the windows evaluated so far
\* and those still to come
LoopCursors ==
    SelectSeq([k \in 1..Len(windows) |-> IF windows[k].ok THEN windows[k].i ELSE -1],
              LAMBDA i : i >= 0) \o cursors

\* run of the scenario (400 prices, train_window=252, test_window=63) has
\* entered its loop
ScenarioEntered ==
    /\ Backtest
    /\ Len(prices) = 400 /\ train_window = 252 /\ test_window = 63
    /\ pc \in {"loop", "returned", "done"} \/ (pc = "raised" /\ error = "TypeError")

\* every window touched so far tests inside stamps, and so does the result
WithinStamps(stamps) ==
    /\ \A k \in 1..Len(windows) : SeqToSet(windows[k].test) \subseteq stamps
    /\ SeqToSet(timestamps) \subseteq stamps

\* C12 as stated: in the scenario run executes exactly one window, cursor
\* i = 252, so every result timestamp belongs to prices[252:315].
C12_ScenarioRunsOneWindow ==
    ScenarioEntered => (LoopCursors = <<252>> /\ WithinStamps(252..314))

\* C12, amended: in the scenario the loop of run has exactly the two cursors
\* 252 and 315, so every window tests inside prices[252:378] and every result
\* timestamp belongs to prices[252:378].
C12_ScenarioLoopsOverTwoCursors ==
    ScenarioEntered => (LoopCursors = <<252, 315>> /\ WithinStamps(252..377))

\* the loop of the scenario is entered and the cursor 315 is among its cursors
C12_Witness ==
    /\ ScenarioEntered
    /\ Len(windows) = 1 /\ windows[1].i = 252
    /\ 315 \in SeqToSet(LoopCursors)

\* at least two different prices among the given stamps
Varying(stamps) ==
    \E j \in 1..Len(stamps) : \E k \in 1..Len(stamps) :
        prices[stamps[j] + 1].v # prices[stamps[k] + 1].v

\* an executed window whose training and test prices both vary
NonDegenerate(w) == Varying(w.train) /\ Varying(w.test)

\* C13: a window run executes over varying prices loses only its first point
\* to the execution lag: the first timestamp it contributes to the result is
\* test-window start + 1, and it contributes at most test_window timestamps.
C13_FirstStampIsStartPlusOne ==
    RunOver =>
        \A k \in 1..Len(windows) :
            NonDegenerate(windows[k]) =>
                /\ windows[k].valid_idx # << >>
                /\ windows[k].valid_idx[1] = windows[k].i + 1
                /\ Len(windows[k].valid_idx) <= test_window

\* C14: no walk-forward loop is unbounded: run returns or raises, and
\* RollingWindow leaves its while loop, for every input length and every
\* window configuration.
C14_EveryLoopTerminates == <>(pc \in {"returned", "raised", "exit"})

\* C15: whenever calculate_metrics returns a metrics object, not None, its
\* sharpe_ratio and std_dev are finite numbers.
C15_MetricsAreFinite ==
    (pc = "done" /\ ~metrics.is_none) =>
        (IsFinite(metrics.sharpe_ratio) /\ IsFinite(metrics.std_dev))
====
